---- MODULE Spec2Model ----
(***************************************************************************)
(* PooledCaller of src/paraproc.py: a pool that runs queued external       *)
(* commands (subprocess.Popen plus a watcher thread) and python callables  *)
(* (multiprocessing.Process) with at most pool_size of them at a time.     *)
(*                                                                         *)
(* The coordinating thread (the caller of run/dispatch/wait/all_successful)*)
(* is modelled statement group by statement group; the child processes,    *)
(* the callable workers and the watcher threads are separate actions that  *)
(* interleave with it.                                                     *)
(***************************************************************************)
EXTENDS Integers, Sequences, FiniteSets, TLC

\* ---------------------------------------------------------------- bounds
\* Spec: run() is called at most MaxJobs times in the life of the pool, and
\* pool_size (constructor argument and wait() override) ranges over 1..MaxPool.
MaxJobs == 2
MaxPool == 2
\* The operating system hands out an already used process id at most
\* MaxReuse times.
MaxReuse == 1
\* SpecBatch: a pool of BatchPool slots runs at most MaxBatch jobs.
MaxBatch == 6
BatchPool == 3

\* ------------------------------------------------------------ work items
None == "None"

\* External commands: "true" exits 0 silently, "fail" prints an AFNI style
\* error line and exits 1, "nosuch" names no executable (Popen raises).
Commands == {"true", "fail", "nosuch"}
\* Callables: f returns the value "val", g raises Exception("boom").
Callables == {"f", "g"}

\* callable(cmd), src/paraproc.py:255
IsCallable(cmd) == cmd \in Callables

\* A captured line: its text, and the job index formatted into it (-1: none).
Line(text, arg) == [text |-> text, arg |-> arg]

\* What the child prints on its stdout/stderr pipe.
CmdLines(cmd) == IF cmd = "fail" THEN <<Line("** ERROR: disk", -1)>> ELSE <<>>

\* Exit status of the child process / worker process.
ExitCode(cmd) == IF cmd \in {"fail", "g"} THEN 1 ELSE 0

\* print('>> Error occurs in job#{0}'.format(idx), file=err)
JobHeader(idx) == Line(">> Error occurs in job#", idx)
\* print('** ERROR:', e, file=err)
FaultLine == Line("** ERROR: boom", -1)

\* _callable_wrapper: the value handed back and the lines captured in the
\* two TeeOut buffers (out first, then err).
CallableRes(cmd) == IF cmd = "f" THEN "val" ELSE None
CallableOutput(idx, cmd) ==
    IF cmd = "g" THEN <<JobHeader(idx), FaultLine>> ELSE <<>>
CallableEntry(u, idx, cmd) ==
    [idx |-> idx, res |-> CallableRes(cmd), output |-> CallableOutput(idx, cmd),
     job |-> u]

\* ----------------------------------------------------------------- state
VARIABLES
    pool_size,   \* self.pool_size
    cmd_queue,   \* self.cmd_queue: <<idx, cmd, uid>> (uid: ghost identity)
    n_cmds,      \* self._n_cmds
    ps,          \* self.ps: process handles (the uid of the job they run)
    idx2pid,     \* self._idx2pid
    pid2job,     \* self._pid2job: pid -> job dict (by uid)
    log,         \* self._log: job dicts (by uid)
    res_queue,   \* self.res_queue
    job,         \* the job dicts, by uid
    proc,        \* child processes, workers, pipes and watcher threads, by uid
    pc,          \* position of the coordinating thread
    w,           \* frame of the call in progress (wait's locals)
    result,      \* outcome of the last finished call
    nsub         \* ghost: number of run() calls so far

vars == <<pool_size, cmd_queue, n_cmds, ps, idx2pid, pid2job, log, res_queue,
          job, proc, pc, w, result, nsub>>

NoFrame == [in_wait |-> FALSE, ress |-> <<>>, arg |-> <<>>, old_size |-> 0, i |-> 0]

\* PooledCaller.__init__ with an explicit pool_size
Init ==
    /\ pool_size \in 1..MaxPool
    /\ cmd_queue = <<>>
    /\ n_cmds = 0
    /\ ps = <<>>
    /\ idx2pid = <<>>
    /\ pid2job = <<>>
    /\ log = <<>>
    /\ res_queue = <<>>
    /\ job = <<>>
    /\ proc = <<>>
    /\ pc = "idle"
    /\ w = NoFrame
    /\ result = [op |-> "init", st |-> "returned"]
    /\ nsub = 0

\* -------------------------------------------------------------- helpers
Has(r, k) == k \in DOMAIN r
Put(r, k, v) == (k :> v) @@ r
Drop(r, k) == [x \in DOMAIN r \ {k} |-> r[x]]

\* a wrong variant of Remove: the elements after x go as well
RemoveFrom(s, x) ==
    IF \E k \in DOMAIN s : s[k] = x
    THEN SubSeq(s, 1, (CHOOSE k \in DOMAIN s : s[k] = x /\ \A j \in 1..k - 1 : s[j] # x) - 1)
    ELSE s

\* list.remove(x): drops the first element equal to x
RECURSIVE Remove(_, _)
Remove(s, x) ==
    IF s = <<>> THEN <<>>
    ELSE IF Head(s) = x THEN Tail(s)
    ELSE <<Head(s)>> \o Remove(Tail(s), x)

\* sorted(seq, key=...) on <<key, value>> pairs: stable, compares keys only.
\* Before(s, j, k): the element at j is placed before the element at k.
Before(s, j, k) == s[j][1] < s[k][1] \/ (s[j][1] = s[k][1] /\ j < k)

Sorted(s) ==
    [p \in DOMAIN s |->
        s[CHOOSE k \in DOMAIN s :
            Cardinality({j \in DOMAIN s : Before(s, j, k)}) = p - 1]]

Range(s) == {s[k] : k \in DOMAIN s}

\* The pids of a pid -> x mapping in increasing order (a dict's values are
\* then read through it; the sort that follows does not depend on the order).
RECURSIVE KeySeq(_)
KeySeq(S) ==
    IF S = {} THEN <<>>
    ELSE LET m == CHOOSE x \in S : \A y \in S : x <= y
         IN <<m>> \o KeySeq(S \ {m})

\* ------------------------------------------------------- error pattern
\* The characters of the texts that jobs of this model print.
Chars(text) ==
    CASE text = "done" -> <<"d", "o", "n", "e">>
      [] text = "* note" -> <<"*", " ", "n", "o", "t", "e">>
      [] text = "0 errors" -> <<"0", " ", "e", "r", "r", "o", "r", "s">>
      [] text = "** ERROR: disk" ->
            <<"*", "*", " ", "E", "R", "R", "O", "R", ":", " ", "d", "i", "s", "k">>
      [] text = "** ERROR: boom" ->
            <<"*", "*", " ", "E", "R", "R", "O", "R", ":", " ", "b", "o", "o", "m">>
      [] text = ">> Error occurs in job#" ->
            <<">", ">", " ", "E", "r", "r", "o", "r", " ", "o", "c", "c", "u", "r", "s",
              " ", "i", "n", " ", "j", "o", "b", "#">>

\* re.IGNORECASE on the letters of "error"
Lower(c) ==
    CASE c = "E" -> "e"
      [] c = "R" -> "r"
      [] c = "O" -> "o"
      [] OTHER -> c

\* a wrong variant of Search: the letters are compared as they are
SearchCaseSensitive(line) ==
    LET c == Chars(line.text)
        n == Len(c)
    IN \/ \E k \in 1..n - 4 :
             [j \in 1..5 |-> c[k + j - 1]] = <<"e", "r", "r", "o", "r">>
       \/ \E k \in 1..n - 1 : c[k] = "*" /\ c[k + 1] = "*"

\* re.compile('error|\*{2}', re.IGNORECASE).search(line); the digits of a
\* formatted job index match neither alternative.
Search(line) ==
    LET c == Chars(line.text)
        n == Len(c)
    IN \/ \E k \in 1..n - 4 :
             [j \in 1..5 |-> Lower(c[k + j - 1])] = <<"e", "r", "r", "o", "r">>
       \/ \E k \in 1..n - 1 : c[k] = "*" /\ c[k + 1] = "*"

\* for line in job['output']: if error_pattern.search(line): n_errors += 1
RECURSIVE CountLines(_)
CountLines(out) ==
    IF out = <<>> THEN 0
    ELSE (IF Search(Head(out)) THEN 1 ELSE 0) + CountLines(Tail(out))

RECURSIVE NErrors(_, _)
NErrors(jm, js) ==
    IF js = <<>> THEN 0
    ELSE CountLines(jm[Head(js)].output) + NErrors(jm, Tail(js))

\* not np.any([job['returncode'] for job in jobs])
AllZero(jm, js) == ~ \E k \in DOMAIN js : jm[js[k]].returncode # 0

\* PooledCaller.all_successful on the job dicts js (by uid) of the heap jm
all_successful(jm, js) == AllZero(jm, js) /\ NErrors(jm, js) = 0

\* job['returncode'] raises KeyError on a dict without that key
LacksCode(jm, js) == \E k \in DOMAIN js : ~Has(jm[js[k]], "returncode")

\* ---------------------------------------------------------- environment
\* Process.start() first reaps the workers that have exited (multiprocessing
\* polls its children before it forks), which frees their pids.
Cleanup(pr) ==
    [v \in DOMAIN pr |->
        IF IsCallable(job[v].cmd) /\ pr[v].st = "exited"
        THEN [pr[v] EXCEPT !.st = "reaped"] ELSE pr[v]]

\* The pid the operating system may give a new child: one never used before,
\* or one of a reaped child. A recycled pid that the pool no longer maps is
\* indistinguishable from a fresh one, so only mapped pids are recycled.
PidChoices(pr) ==
    LET used == {pr[v].pid : v \in DOMAIN pr}
        held == {pr[v].pid : v \in {x \in DOMAIN pr : pr[x].st # "reaped"}}
        reuses == Cardinality(DOMAIN pr) - Cardinality(used)
    IN {Cardinality(used) + 1}
         \cup (IF reuses < MaxReuse THEN (used \ held) \cap DOMAIN pid2job ELSE {})

NewProc(cmd, pid) ==
    [pid |-> pid, st |-> "alive", step |-> 0, pipe |-> <<>>,
     watcher |-> IF IsCallable(cmd) THEN "none" ELSE "run"]

\* What a child has to do before it can exit: print its lines (a command),
\* put its entry on the results channel (a callable worker).
Steps(cmd) == IF IsCallable(cmd) THEN 1 ELSE Len(CmdLines(cmd))

\* A command writes its next line to the pipe.
ProcWrite(u) ==
    /\ u \in DOMAIN proc /\ proc[u].st = "alive"
    /\ ~IsCallable(job[u].cmd)
    /\ proc[u].step < Steps(job[u].cmd)
    /\ proc' = [proc EXCEPT ![u].step = @ + 1,
                            ![u].pipe = Append(@, CmdLines(job[u].cmd)[proc[u].step + 1])]
    /\ UNCHANGED <<pool_size, cmd_queue, n_cmds, ps, idx2pid, pid2job, log,
                   res_queue, job, pc, w, result, nsub>>

\* a wrong variant of WorkerPut: the put is not in a finally clause
WorkerPutOnReturn(u) ==
    /\ u \in DOMAIN proc /\ proc[u].st = "alive"
    /\ IsCallable(job[u].cmd)
    /\ proc[u].step = 0
    /\ proc' = [proc EXCEPT ![u].step = 1]
    /\ res_queue' = IF job[u].cmd = "g" THEN res_queue
                    ELSE Append(res_queue, CallableEntry(u, job[u].idx, job[u].cmd))
    /\ UNCHANGED <<pool_size, cmd_queue, n_cmds, ps, idx2pid, pid2job, log,
                   job, pc, w, result, nsub>>

\* _callable_wrapper, the finally clause: the worker puts [idx, res, output]
\* on the results channel. idx is the argument the worker was started with.
WorkerPut(u) ==
    /\ u \in DOMAIN proc /\ proc[u].st = "alive"
    /\ IsCallable(job[u].cmd)
    /\ proc[u].step = 0
    /\ proc' = [proc EXCEPT ![u].step = 1]
    /\ res_queue' = Append(res_queue, CallableEntry(u, job[u].idx, job[u].cmd))
    /\ UNCHANGED <<pool_size, cmd_queue, n_cmds, ps, idx2pid, pid2job, log,
                   job, pc, w, result, nsub>>

\* The child process or worker terminates (and stays a zombie until reaped).
ProcExit(u) ==
    /\ u \in DOMAIN proc /\ proc[u].st = "alive"
    /\ proc[u].step = Steps(job[u].cmd)
    /\ proc' = [proc EXCEPT ![u].st = "exited"]
    /\ UNCHANGED <<pool_size, cmd_queue, n_cmds, ps, idx2pid, pid2job, log,
                   res_queue, job, pc, w, result, nsub>>

\* _async_reader, a non-empty line: output_list.append(line). output_list is
\* the list job['output'] was bound to at dispatch; when the key has been
\* rebound since, the append goes to a list the job dict no longer holds.
WatcherRead(u) ==
    /\ u \in DOMAIN proc /\ proc[u].watcher = "run"
    /\ proc[u].pipe # <<>>
    /\ proc' = [proc EXCEPT ![u].pipe = Tail(@)]
    /\ job' = IF job[u].aliased
              THEN [job EXCEPT ![u].output = Append(@, Head(proc[u].pipe))]
              ELSE job
    /\ UNCHANGED <<pool_size, cmd_queue, n_cmds, ps, idx2pid, pid2job, log,
                   res_queue, pc, w, result, nsub>>

\* _async_reader, the empty read at end of stream: the thread ends.
WatcherEOF(u) ==
    /\ u \in DOMAIN proc /\ proc[u].watcher = "run"
    /\ proc[u].pipe = <<>> /\ proc[u].st # "alive"
    /\ proc' = [proc EXCEPT ![u].watcher = "done"]
    /\ UNCHANGED <<pool_size, cmd_queue, n_cmds, ps, idx2pid, pid2job, log,
                   res_queue, job, pc, w, result, nsub>>

\* ------------------------------------------------------------------ run
\* a wrong variant of Submit: the job goes to the front of the queue
SubmitFront(cmd) ==
    /\ pc = "idle"
    /\ cmd_queue' = <<<<n_cmds, cmd, nsub + 1>>>> \o cmd_queue
    /\ n_cmds' = n_cmds + 1
    /\ nsub' = nsub + 1
    /\ result' = [op |-> "run", st |-> "returned"]
    /\ UNCHANGED <<pool_size, ps, idx2pid, pid2job, log, res_queue, job, proc, pc, w>>

\* PooledCaller.run: lines 208-210
Submit(cmd) ==
    /\ pc = "idle"
    /\ cmd_queue' = Append(cmd_queue, <<n_cmds, cmd, nsub + 1>>)
    /\ n_cmds' = n_cmds + 1
    /\ nsub' = nsub + 1
    /\ result' = [op |-> "run", st |-> "returned"]
    /\ UNCHANGED <<pool_size, ps, idx2pid, pid2job, log, res_queue, job, proc, pc, w>>

Run(cmd) == nsub < MaxJobs /\ Submit(cmd)

\* the work of the batches of SpecBatch: silent commands, and at most one
\* callable in the life of the pool
BatchKinds == {"true", "f"}
NoCallableYet ==
    /\ \A k \in DOMAIN cmd_queue : ~IsCallable(cmd_queue[k][2])
    /\ \A u \in DOMAIN job : ~IsCallable(job[u].cmd)
RunBatch(cmd) ==
    /\ nsub < MaxBatch
    /\ IsCallable(cmd) => NoCallableYet
    /\ Submit(cmd)

\* ------------------------------------------------------------- dispatch
Raised(op, exc) == [op |-> op, st |-> "raised", exc |-> exc]
Caller == IF w.in_wait THEN "wait" ELSE "dispatch"

\* a wrong variant of DispatchGuard: <= for <
DispatchGuardOffByOne(running, size, queued) == Len(running) <= size /\ Len(queued) > 0

\* while len(self.ps) < self.pool_size and len(self.cmd_queue) > 0
DispatchGuard(running, size, queued) == Len(running) < size /\ Len(queued) > 0

\* Where the coordinating thread stands when dispatch() is entered or has
\* finished an iteration: in the loop body again, or past the loop, which is
\* back at the user or at wait's poll of self.ps.
DispatchPc(running, size, queued, in_wait) ==
    IF DispatchGuard(running, size, queued) THEN "dispatch"
    ELSE IF in_wait THEN "poll" ELSE "idle"

\* a call of dispatch() by the user
DispatchCall ==
    /\ pc = "idle"
    /\ pc' = DispatchPc(ps, pool_size, cmd_queue, FALSE)
    /\ w' = NoFrame
    /\ result' = [op |-> "dispatch", st |-> IF pc' = "idle" THEN "returned" ELSE "running"]
    /\ UNCHANGED <<pool_size, cmd_queue, n_cmds, ps, idx2pid, pid2job, log,
                   res_queue, job, proc, nsub>>

\* the job dict made at line 252, completed by lines 263-269
NewJob(idx, cmd, u, pid) ==
    IF IsCallable(cmd)
    THEN [idx |-> idx, cmd |-> cmd, output |-> <<>>, aliased |-> TRUE, pid |-> pid]
    ELSE [idx |-> idx, cmd |-> cmd, output |-> <<>>, aliased |-> TRUE, pid |-> pid,
          speed_up |-> FALSE, watcher |-> u]

\* One iteration of dispatch's loop for a job that starts: lines 251-272.
DispatchLaunch ==
    /\ pc = "dispatch"
    /\ LET idx == Head(cmd_queue)[1]
           cmd == Head(cmd_queue)[2]
           u   == Head(cmd_queue)[3]
           pr  == IF IsCallable(cmd) THEN Cleanup(proc) ELSE proc
       IN /\ cmd # "nosuch"
          /\ \E pid \in PidChoices(pr) :
               /\ proc' = (u :> NewProc(cmd, pid)) @@ pr
               /\ job' = (u :> NewJob(idx, cmd, u, pid)) @@ job
               /\ idx2pid' = (idx :> pid) @@ idx2pid
               /\ pid2job' = (pid :> u) @@ pid2job
          /\ cmd_queue' = Tail(cmd_queue)
          /\ ps' = Append(ps, u)
          /\ log' = Append(log, u)
    /\ pc' = DispatchPc(ps', pool_size, cmd_queue', w.in_wait)
    /\ w' = IF pc' = "poll" THEN [w EXCEPT !.i = 1] ELSE w
    /\ result' = IF pc' = "idle" THEN [op |-> "dispatch", st |-> "returned"] ELSE result
    /\ UNCHANGED <<pool_size, n_cmds, res_queue, nsub>>

\* a wrong variant of DispatchFault: the job is still at the head of the queue
DispatchFaultKeepsJob ==
    /\ pc = "dispatch"
    /\ Head(cmd_queue)[2] = "nosuch"
    /\ pc' = "idle"
    /\ w' = NoFrame
    /\ result' = Raised(Caller, "OSError")
    /\ UNCHANGED <<pool_size, cmd_queue, n_cmds, ps, idx2pid, pid2job, log,
                   res_queue, job, proc, nsub>>

\* One iteration of dispatch's loop for a command that cannot be started:
\* subprocess.Popen (line 261) raises after the job has been popped from the
\* queue, and the exception leaves dispatch() and, under wait(), wait().
DispatchFault ==
    /\ pc = "dispatch"
    /\ Head(cmd_queue)[2] = "nosuch"
    /\ cmd_queue' = Tail(cmd_queue)
    /\ pc' = "idle"
    /\ w' = NoFrame
    /\ result' = Raised(Caller, "OSError")
    /\ UNCHANGED <<pool_size, n_cmds, ps, idx2pid, pid2job, log, res_queue,
                   job, proc, nsub>>

\* ----------------------------------------------------------------- wait
\* a wrong variant of WaitGuard: the running set is forgotten
WaitGuardQueueOnly(running, queued) == Len(queued) > 0

\* while len(self.ps) > 0 or len(self.cmd_queue) > 0
WaitGuard(running, queued) == Len(running) > 0 \/ Len(queued) > 0

\* Where wait() stands at its loop test: in dispatch's loop body, at the poll
\* of self.ps, or past the loop.
WaitPc(running, size, queued) ==
    IF WaitGuard(running, queued) THEN DispatchPc(running, size, queued, TRUE)
    ELSE "final"

\* wait(pool_size=arg): lines 298-304. arg is <<>> for None, else <<k>>.
WaitCall(arg) ==
    /\ pc = "idle"
    /\ pool_size' = IF arg # <<>> THEN arg[1] ELSE pool_size
    /\ w' = [in_wait |-> TRUE, ress |-> <<>>, arg |-> arg,
             old_size |-> IF arg # <<>> THEN pool_size ELSE 0, i |-> 1]
    /\ pc' = WaitPc(ps, pool_size', cmd_queue)
    /\ result' = [op |-> "wait", st |-> "running"]
    /\ UNCHANGED <<cmd_queue, n_cmds, ps, idx2pid, pid2job, log, res_queue,
                   job, proc, nsub>>

\* for p in self.ps: the list iterator is at position w.i (from 1) of the
\* list as it is now; a remove() during the loop shifts the later elements
\* down while the position moves on.
PollHas == pc = "poll" /\ w.i <= Len(ps)
PollP == ps[w.i]
\* job = self._pid2job[p.pid]
PollJob == pid2job[proc[PollP].pid]

\* job['stop_time'] = time.time(); job['returncode'] = p.returncode
Stopped(j, code) == Put(Put(j, "stop_time", TRUE), "returncode", code)

\* p.poll() is None / p.is_alive(): nothing to do for this p
PollRunning ==
    /\ PollHas
    /\ proc[PollP].st = "alive"
    /\ w' = [w EXCEPT !.i = @ + 1]
    /\ UNCHANGED <<pool_size, cmd_queue, n_cmds, ps, idx2pid, pid2job, log,
                   res_queue, job, proc, pc, result, nsub>>

\* lines 311-314: the command has terminated; poll() reaps it
PollCommandExited ==
    /\ PollHas
    /\ ~IsCallable(job[PollP].cmd)
    /\ proc[PollP].st # "alive"
    /\ proc' = [proc EXCEPT ![PollP].st = "reaped"]
    /\ job' = [job EXCEPT ![PollJob] =
                  Put(Stopped(@, ExitCode(job[PollP].cmd)), "speed_up", TRUE)]
    /\ pc' = "join"
    /\ UNCHANGED <<pool_size, cmd_queue, n_cmds, ps, idx2pid, pid2job, log,
                   res_queue, w, result, nsub>>

\* lines 315-322: job['watcher'].join() returns once the watcher has ended;
\* then the pipe is closed, p leaves self.ps and [idx, None] is put
PollCommandJoin ==
    /\ pc = "join"
    /\ proc[job[PollJob].watcher].watcher = "done"
    /\ ps' = Remove(ps, PollP)
    /\ res_queue' = Append(res_queue,
                           [idx |-> job[PollJob].idx, res |-> None, job |-> PollJob])
    /\ job' = [job EXCEPT ![PollJob] = Drop(Drop(@, "watcher"), "speed_up")]
    /\ pc' = "poll"
    /\ w' = [w EXCEPT !.i = @ + 1]
    /\ UNCHANGED <<pool_size, cmd_queue, n_cmds, idx2pid, pid2job, log,
                   proc, result, nsub>>

\* lines 326-329: the worker is no longer alive; is_alive() reaps it
PollWorkerExited ==
    /\ PollHas
    /\ IsCallable(job[PollP].cmd)
    /\ proc[PollP].st # "alive"
    /\ proc' = [proc EXCEPT ![PollP].st = "reaped"]
    /\ job' = [job EXCEPT ![PollJob] = Stopped(@, ExitCode(job[PollP].cmd))]
    /\ ps' = Remove(ps, PollP)
    /\ w' = [w EXCEPT !.i = @ + 1]
    /\ UNCHANGED <<pool_size, cmd_queue, n_cmds, idx2pid, pid2job, log,
                   res_queue, pc, result, nsub>>

\* PooledCaller._async_get_res(res_list): what it leaves behind.
\*   exc: KeyError from self._pid2job[self._idx2pid[res[0]]]
AsyncGetRes(res_list) ==
    IF res_queue = <<>>
    THEN [exc |-> FALSE, queue |-> res_queue, ress |-> res_list, job |-> job]
    ELSE LET res == Head(res_queue)
             got == Append(res_list, [idx |-> res.idx, res |-> res.res, job |-> res.job])
         IN IF ~Has(res, "output")
            THEN [exc |-> FALSE, queue |-> Tail(res_queue), ress |-> got, job |-> job]
            ELSE IF res.idx \notin DOMAIN idx2pid
                    \/ idx2pid[res.idx] \notin DOMAIN pid2job
            THEN [exc |-> TRUE, queue |-> Tail(res_queue), ress |-> got, job |-> job]
            ELSE [exc |-> FALSE, queue |-> Tail(res_queue), ress |-> got,
                  job |-> [job EXCEPT ![pid2job[idx2pid[res.idx]]].output = res.output,
                                      ![pid2job[idx2pid[res.idx]]].aliased = FALSE]]

\* the for loop is exhausted: time.sleep(0.1), self._async_get_res(ress)
\* (lines 334-336), then the loop test of line 304
WaitGet ==
    /\ pc = "poll"
    /\ w.i > Len(ps)
    /\ LET g == AsyncGetRes(w.ress)
       IN /\ res_queue' = g.queue
          /\ job' = g.job
          /\ IF g.exc
             THEN /\ pc' = "idle"
                  /\ w' = NoFrame
                  /\ result' = Raised("wait", "KeyError")
             ELSE /\ pc' = WaitPc(ps, pool_size, cmd_queue)
                  /\ w' = [w EXCEPT !.ress = g.ress, !.i = 1]
                  /\ UNCHANGED result
    /\ UNCHANGED <<pool_size, cmd_queue, n_cmds, ps, idx2pid, pid2job, log,
                   proc, nsub>>

\* ress = [res[1] for res in sorted(ress, key=lambda res: res[0])]
SortedRess(ress) == Sorted([k \in DOMAIN ress |-> <<ress[k].idx, ress[k]>>])
\* jobs = sorted(self._pid2job.values(), key=lambda job: job['idx'])
SortedJobs(jm) ==
    LET pids == KeySeq(DOMAIN pid2job)
        srt == Sorted([k \in DOMAIN pids |-> <<jm[pid2job[pids[k]]].idx, pid2job[pids[k]]>>])
    IN [k \in DOMAIN srt |-> srt[k][2]]

\* what wait() hands back: the three lists it computes (the flags
\* return_codes and return_jobs only select among them), the jobs of the
\* results entries (ghost), and what it prints (verbose > 0): the number of
\* jobs of the batch, self._n_cmds, and the verdict
Returned(ress, jm) ==
    LET srt == SortedRess(ress)
        jobs == SortedJobs(jm)
    IN [op |-> "wait", st |-> "returned", n |-> n_cmds,
        ress |-> [k \in DOMAIN srt |-> srt[k][2].res],
        ress_job |-> [k \in DOMAIN srt |-> srt[k][2].job],
        jobs |-> jobs,
        codes |-> [k \in DOMAIN jobs |-> jm[jobs[k]].returncode],
        ok |-> all_successful(jm, jobs)]

\* lines 338-363: the last _async_get_res, the sorted lists, the reset
WaitFinal ==
    /\ pc = "final"
    /\ \E g \in {AsyncGetRes(w.ress)} :
          /\ res_queue' = g.queue
          /\ job' = g.job
          /\ pc' = "idle"
          /\ w' = NoFrame
          /\ IF g.exc \/ LacksCode(g.job, SortedJobs(g.job))
             THEN /\ result' = Raised("wait", "KeyError")
                  /\ UNCHANGED <<n_cmds, idx2pid, pid2job, pool_size>>
             ELSE /\ \E r \in {Returned(g.ress, g.job)} : result' = r
                  /\ n_cmds' = 0
                  /\ idx2pid' = <<>>
                  /\ pid2job' = <<>>
                  /\ pool_size' = IF w.arg # <<>> THEN w.old_size ELSE pool_size
    /\ UNCHANGED <<cmd_queue, ps, log, proc, nsub>>

\* a call of all_successful() by the user: jobs = self._log
AllSuccessful ==
    /\ pc = "idle"
    /\ result' = IF LacksCode(job, log)
                 THEN Raised("all_successful", "KeyError")
                 ELSE [op |-> "all_successful", st |-> "returned",
                       value |-> all_successful(job, log)]
    /\ UNCHANGED <<pool_size, cmd_queue, n_cmds, ps, idx2pid, pid2job, log,
                   res_queue, job, proc, pc, w, nsub>>

\* ------------------------------------------------------- specification
PoolSizes == {<<>>} \cup {<<k>> : k \in 1..MaxPool}

\* the steps of the coordinating thread inside dispatch() and wait()
Coordinator ==
    \/ DispatchLaunch
    \/ DispatchFault
    \/ PollRunning
    \/ PollCommandExited
    \/ PollCommandJoin
    \/ PollWorkerExited
    \/ WaitGet
    \/ WaitFinal

\* the steps of the child processes, the workers and the watcher threads
Children ==
    \/ \E u \in DOMAIN proc : ProcWrite(u)
    \/ \E u \in DOMAIN proc : WorkerPut(u)
    \/ \E u \in DOMAIN proc : ProcExit(u)
    \/ \E u \in DOMAIN proc : WatcherRead(u)
    \/ \E u \in DOMAIN proc : WatcherEOF(u)

Next ==
    \/ \E cmd \in Commands \cup Callables : Run(cmd)
    \/ DispatchCall
    \/ \E arg \in PoolSizes : WaitCall(arg)
    \/ AllSuccessful
    \/ Coordinator
    \/ Children

Spec == Init /\ [][Next]_vars

\* A caller whose commands can all be launched.
NextStart ==
    \/ \E cmd \in (Commands \cup Callables) \ {"nosuch"} : Run(cmd)
    \/ DispatchCall
    \/ \E arg \in PoolSizes : WaitCall(arg)
    \/ DispatchLaunch
    \/ PollRunning
    \/ PollCommandExited
    \/ PollCommandJoin
    \/ PollWorkerExited
    \/ WaitGet
    \/ WaitFinal
    \/ Children

SpecStart == Init /\ [][NextStart]_vars

\* A caller that submits and waits: a command that prints and fails, a command
\* that cannot be launched, and a callable. The coordinating thread keeps
\* running (its sleeps are bounded), and every child terminates and every
\* watcher reaches the end of its stream.
WaitKinds == {"fail", "nosuch", "f"}

NextWait ==
    \/ \E cmd \in WaitKinds : Run(cmd)
    \/ \E arg \in PoolSizes : WaitCall(arg)
    \/ Coordinator
    \/ Children

FairSpec == Init /\ [][NextWait]_vars /\ WF_vars(Coordinator) /\ WF_vars(Children)

\* A caller that only submits silent work and waits, on a pool of BatchPool
\* slots: batches large enough for several jobs to finish in one poll pass.
InitBatch ==
    /\ pool_size = BatchPool
    /\ cmd_queue = <<>>
    /\ n_cmds = 0
    /\ ps = <<>>
    /\ idx2pid = <<>>
    /\ pid2job = <<>>
    /\ log = <<>>
    /\ res_queue = <<>>
    /\ job = <<>>
    /\ proc = <<>>
    /\ pc = "idle"
    /\ w = NoFrame
    /\ result = [op |-> "init", st |-> "returned"]
    /\ nsub = 0

NextBatch ==
    \/ \E cmd \in BatchKinds : RunBatch(cmd)
    \/ WaitCall(<<>>)
    \/ DispatchLaunch
    \/ PollRunning
    \/ PollCommandExited
    \/ PollCommandJoin
    \/ PollWorkerExited
    \/ WaitGet
    \/ WaitFinal
    \/ \E u \in DOMAIN proc : WorkerPut(u)
    \/ \E u \in DOMAIN proc : ProcExit(u)
    \/ \E u \in DOMAIN proc : WatcherEOF(u)

SpecBatch == InitBatch /\ [][NextBatch]_vars

\* A caller that submits up to MaxOut jobs, printing commands and callables,
\* to a pool of BatchPool slots and waits.
MaxOut == 3
OutKinds == {"fail", "f"}
RunOut(cmd) == nsub < MaxOut /\ Submit(cmd)

NextOut ==
    \/ \E cmd \in OutKinds : RunOut(cmd)
    \/ WaitCall(<<>>)
    \/ DispatchLaunch
    \/ PollRunning
    \/ PollCommandExited
    \/ PollCommandJoin
    \/ PollWorkerExited
    \/ WaitGet
    \/ WaitFinal
    \/ Children

SpecOut == InitBatch /\ [][NextOut]_vars

\* all_successful(jobs=...) on its own: the pool holds the records of up to
\* MaxLog finished jobs, with every combination of the exit codes and the
\* captured outputs below, and the user asks for the verdict.
MaxLog == 2
VerdictCodes == {0, 1, -15}
VerdictOutputs ==
    {<<>>,
     <<Line("done", -1)>>,
     <<Line("* note", -1), Line("done", -1)>>,
     <<Line("done", -1), Line("0 errors", -1)>>,
     <<Line("** ERROR: disk", -1)>>,
     <<JobHeader(0)>>,
     <<JobHeader(0), FaultLine>>}

\* the dict of a finished job: made at dispatch, completed at retirement
FinishedJob(idx, code, out) ==
    [Stopped(NewJob(idx, "f", idx + 1, idx + 1), code)
        EXCEPT !.output = out, !.aliased = FALSE]

InitVerdict ==
    /\ pool_size = 1
    /\ cmd_queue = <<>>
    /\ n_cmds = 0
    /\ ps = <<>>
    /\ idx2pid = <<>>
    /\ pid2job = <<>>
    /\ \E n \in 0..MaxLog :
         \E codes \in [1..n -> VerdictCodes], outs \in [1..n -> VerdictOutputs] :
            /\ job = [u \in 1..n |-> FinishedJob(u - 1, codes[u], outs[u])]
            /\ log = [u \in 1..n |-> u]
            /\ nsub = n
    /\ res_queue = <<>>
    /\ proc = <<>>
    /\ pc = "idle"
    /\ w = NoFrame
    /\ result = [op |-> "init", st |-> "returned"]

SpecVerdict == InitVerdict /\ [][AllSuccessful]_vars

\* idss(total) on its own: pools of 1..IdssPool slots, totals up to MaxTotal.
IdssPool == 3
MaxTotal == 40

\* the least integer not below a / b, for a >= 0 and b > 0
CeilDiv(a, b) == (a + b - 1) \div b

\* batch_size = int(np.ceil(total / self.pool_size / 10)): true division, so
\* the quotient is total / (10 * pool_size), which floats hold to well
\* within the distance to the next integer for the totals of this model
BatchSize(total, size) == CeilDiv(total, size * 10)

\* range(k, min(k+batch_size, total)) for k in range(0, total, batch_size),
\* a range as <<first, one past last>>; range() with step 0 raises
IdssRanges(total, batch_size) ==
    [j \in 1..CeilDiv(total, batch_size) |->
        <<(j - 1) * batch_size,
          IF (j - 1) * batch_size + batch_size < total
          THEN (j - 1) * batch_size + batch_size ELSE total>>]

\* a call of idss(total) by the user, its ranges drawn to the end
Idss(total) ==
    /\ pc = "idle"
    /\ result' = IF BatchSize(total, pool_size) = 0
                 THEN [op |-> "idss", st |-> "raised", exc |-> "ValueError",
                       total |-> total]
                 ELSE [op |-> "idss", st |-> "returned", total |-> total,
                       value |-> IdssRanges(total, BatchSize(total, pool_size))]
    /\ UNCHANGED <<pool_size, cmd_queue, n_cmds, ps, idx2pid, pid2job, log,
                   res_queue, job, proc, pc, w, nsub>>

InitIdss ==
    /\ pool_size \in 1..IdssPool
    /\ cmd_queue = <<>>
    /\ n_cmds = 0
    /\ ps = <<>>
    /\ idx2pid = <<>>
    /\ pid2job = <<>>
    /\ log = <<>>
    /\ res_queue = <<>>
    /\ job = <<>>
    /\ proc = <<>>
    /\ pc = "idle"
    /\ w = NoFrame
    /\ result = [op |-> "init", st |-> "returned"]
    /\ nsub = 0

NextIdss == \E total \in 0..MaxTotal : Idss(total)

SpecIdss == InitIdss /\ [][NextIdss]_vars

\* A pool made without a pool_size on a machine with 1..MaxCpus CPUs:
\* self.pool_size = multiprocessing.cpu_count() * 3 // 4
MaxCpus == 3
DefaultPoolSize(cpus) == (cpus * 3) \div 4

InitDefault ==
    /\ \E cpus \in 1..MaxCpus : pool_size = DefaultPoolSize(cpus)
    /\ cmd_queue = <<>>
    /\ n_cmds = 0
    /\ ps = <<>>
    /\ idx2pid = <<>>
    /\ pid2job = <<>>
    /\ log = <<>>
    /\ res_queue = <<>>
    /\ job = <<>>
    /\ proc = <<>>
    /\ pc = "idle"
    /\ w = NoFrame
    /\ result = [op |-> "init", st |-> "returned"]
    /\ nsub = 0

SpecDefault == InitDefault /\ [][Next]_vars

\* =================================================================== claims
WaitReturned == pc = "idle" /\ result.op = "wait" /\ result.st = "returned"

\* C1: the results list that wait() returns has one entry per job of the
\* batch: its length is the number of jobs submitted for the batch.
C1_ResultsLength == WaitReturned => Len(result.ress) = result.n

\* C2: the lists that wait() returns are in submission order: of two entries,
\* the one of the job submitted earlier comes first (results, and jobs/codes).
Increasing(s) == \A a, b \in DOMAIN s : a < b => s[a] < s[b]
C2_SubmissionOrder ==
    WaitReturned => Increasing(result.ress_job) /\ Increasing(result.jobs)

\* C3 as claimed: in every state the running set holds at most pool_size jobs.
C3_WithinPoolSize == Len(ps) <= pool_size

\* C3 as amended: the running set grows only up to the pool_size in effect
\* (no job is started unless fewer than pool_size jobs are running), and it
\* comes to exceed pool_size only by a step that lowers pool_size.
C3_GrowsWithinPoolSize ==
    [][/\ Len(ps') > Len(ps) => Len(ps') <= pool_size'
       /\ (Len(ps) <= pool_size /\ Len(ps') > pool_size') => pool_size' < pool_size]_vars

\* a queued job waits because the pool is full
C3_PoolFull == pc = "poll" /\ Len(ps) = pool_size /\ Len(cmd_queue) > 0

\* C4 as claimed: a call of wait() returns (it never ends without returning).
C4_WaitReturns == ~(pc = "idle" /\ result.op = "wait" /\ result.st = "raised")

\* C4 as amended: every call of wait() ends, by returning or by a fault that
\* propagates out of it, and it returns only with the queue and the running
\* set empty.
C4_WaitEnds ==
    /\ [](WaitReturned => (cmd_queue = <<>> /\ ps = <<>>))
    /\ (w.in_wait ~> pc = "idle")

\* wait() has returned from a batch whose jobs it ran
C4_Waited == WaitReturned /\ result.n > 0 /\ Len(result.ress) > 0

\* C5: all_successful() returns false if and only if some job of the set has a
\* non-zero exit code or some captured line of some job matches the error
\* pattern (it holds the letters "error" in any case, or two asterisks in a
\* row); for the empty set it returns true.
Flagged == {"0 errors", "** ERROR: disk", "** ERROR: boom", ">> Error occurs in job#"}
VerdictReturned == result.op = "all_successful" /\ result.st = "returned"
C5_Verdict ==
    VerdictReturned =>
        /\ result.value = FALSE <=>
              \/ \E k \in DOMAIN log : job[log[k]].returncode # 0
              \/ \E k \in DOMAIN log :
                    \E l \in DOMAIN job[log[k]].output :
                       job[log[k]].output[l].text \in Flagged
        /\ log = <<>> => result.value = TRUE

\* the verdict is false for jobs that all exited with 0, one of which printed
\* a line with the word Error
C5_FlaggedOnly ==
    /\ VerdictReturned /\ result.value = FALSE
    /\ \A k \in DOMAIN log : job[log[k]].returncode = 0
    /\ \E k \in DOMAIN log : JobHeader(0) \in Range(job[log[k]].output)

\* the jobs submitted since the bookkeeping was last reset, as wait() returns
BatchJobs == {u \in 1..nsub : u > nsub - result.n}

\* C6: when a callable job raises a fault then, after wait() has returned, its
\* job dict has a non-zero exit code, the results list holds None at its
\* position, and its captured output holds the line naming its index and the
\* line with the fault's message.
C6_FaultReported ==
    WaitReturned =>
        \A u \in BatchJobs \cap DOMAIN job :
            job[u].cmd = "g" =>
                /\ Has(job[u], "returncode") /\ job[u].returncode # 0
                /\ Len(result.ress) > job[u].idx /\ result.ress[job[u].idx + 1] = None
                /\ JobHeader(job[u].idx) \in Range(job[u].output)
                /\ FaultLine \in Range(job[u].output)

\* C7: a job that fails does not stop the batch. The step of wait() that
\* retires a job, whatever its exit code and output, leaves wait() polling,
\* leaves the queue as it is and takes only that job out of the running set;
\* a job leaves the queue only from its head, and then it is launched unless
\* its launch raises; and when wait() returns no job is left queued and every
\* job that was launched has run to its end.
C7_BatchGoesOn ==
    /\ [][\A u \in Range(ps) \ Range(ps') :
            /\ pc' = "poll" /\ w'.in_wait
            /\ cmd_queue' = cmd_queue
            /\ Range(ps') = Range(ps) \ {u}]_vars
    /\ [][Len(cmd_queue') < Len(cmd_queue) =>
            /\ cmd_queue' = Tail(cmd_queue)
            /\ \/ ps' = Append(ps, Head(cmd_queue)[3])
               \/ result'.st = "raised" /\ result'.exc = "OSError"]_vars
    /\ [](WaitReturned =>
            cmd_queue = <<>> /\ \A u \in DOMAIN proc : proc[u].st # "alive")

\* a job has failed and been retired while wait() still has a job to launch
C7_FailedAmidBatch ==
    /\ w.in_wait /\ cmd_queue # <<>>
    /\ \E u \in DOMAIN job :
          /\ u \notin Range(ps)
          /\ Has(job[u], "returncode") /\ job[u].returncode # 0
          /\ \E l \in DOMAIN job[u].output : Search(job[u].output[l])

\* C8: after wait() has returned the next index is 0 and both maps are empty,
\* the jobs of the batch carry the indices 0, 1, 2, ... in submission order,
\* and the history holds every job submitted so far exactly once.
C8_ResetAndHistory ==
    WaitReturned =>
        /\ n_cmds = 0 /\ idx2pid = <<>> /\ pid2job = <<>>
        /\ \A u \in BatchJobs \cap DOMAIN job : job[u].idx = u - (nsub - result.n) - 1
        /\ \A u \in 1..nsub : Cardinality({k \in DOMAIN log : log[k] = u}) = 1

\* C9: in the results list that wait() returns, the position of every
\* external-command job of the batch holds None.
C9_CommandResultNone ==
    WaitReturned =>
        \A u \in BatchJobs \cap DOMAIN job :
            (~IsCallable(job[u].cmd) /\ Len(result.ress) > job[u].idx)
                => result.ress[job[u].idx + 1] = None

\* C10: every submitted job is in exactly one of the states queued, running,
\* finished (a stop time and an exit code, and in neither collection).
Queued(u) == \E k \in DOMAIN cmd_queue : cmd_queue[k][3] = u
Running(u) == u \in Range(ps)
Finished(u) ==
    /\ u \in DOMAIN job /\ Has(job[u], "stop_time") /\ Has(job[u], "returncode")
    /\ ~Queued(u) /\ ~Running(u)
C10_OneState ==
    \A u \in 1..nsub :
        /\ Queued(u) \/ Running(u) \/ Finished(u)
        /\ ~(Queued(u) /\ Running(u))

\* C11: when the creation of a command's process fails, the fault leaves
\* dispatch()/wait() to the caller, the job is gone from the queue and is
\* never queued or started again, and the running set and the rest of the
\* queue are as they were (the first conjunct is about the coordinating
\* thread's step at that job, the one that moves it on).
QueuedJobs == {cmd_queue[k][3] : k \in DOMAIN cmd_queue}
LaunchFault == result.st = "raised" /\ result.exc = "OSError"
C11_LaunchFault ==
    /\ [][(pc = "dispatch" /\ Head(cmd_queue)[2] = "nosuch" /\ pc' # pc) =>
            /\ pc' = "idle" /\ LaunchFault'
            /\ result'.op = (IF w.in_wait THEN "wait" ELSE "dispatch")
            /\ ps' = ps /\ proc' = proc
            /\ cmd_queue' = Tail(cmd_queue)]_vars
    /\ [][QueuedJobs' \subseteq QueuedJobs \cup (nsub + 1..nsub')]_vars
    /\ [](\A u \in DOMAIN proc : job[u].cmd # "nosuch")

\* a launch fault has left wait() while another job of the batch is running
C11_FaultWhileRunning ==
    pc = "idle" /\ LaunchFault /\ result.op = "wait" /\ ps # <<>>

\* C12: the jobs list and the codes list that wait() returns hold exactly one
\* entry for each job of the batch.
C12_JobsAndCodes ==
    WaitReturned =>
        /\ Len(result.jobs) = result.n /\ Len(result.codes) = result.n
        /\ Range(result.jobs) = BatchJobs

\* C13: jobs are launched in submission order. The indices in the queue
\* increase from its head, the job that dispatch() starts is the head of the
\* queue, so it has the lowest index of the jobs then queued, and the jobs of
\* a batch appear in the history, which records the launches, by increasing
\* index.
C13_LaunchOrder ==
    /\ [](Increasing([k \in DOMAIN cmd_queue |-> cmd_queue[k][1]]))
    /\ [][Len(ps') > Len(ps) =>
            /\ ps' = Append(ps, Head(cmd_queue)[3])
            /\ \A k \in DOMAIN cmd_queue : Head(cmd_queue)[1] <= cmd_queue[k][1]]_vars
    /\ [](\A a, b \in DOMAIN log :
            (a < b /\ log[a] > nsub - n_cmds /\ log[b] > nsub - n_cmds)
                => job[log[a]].idx < job[log[b]].idx)

\* two jobs of one batch have been launched
C13_TwoLaunched ==
    /\ n_cmds >= 2 /\ Len(log) >= 2
    /\ log[Len(log)] > nsub - n_cmds /\ log[Len(log) - 1] > nsub - n_cmds

\* C14: a callable worker puts exactly one entry with its job's index on the
\* results channel, whether the callable returns (the entry carries its
\* value) or raises (the entry carries None and the lines captured), and it
\* does so before it terminates.
Workers == {u \in DOMAIN proc : IsCallable(job[u].cmd)}
Pushes(u) ==
    /\ proc[u].step = 0 /\ proc'[u].step = 1
    /\ Len(res_queue') = Len(res_queue) + 1
    /\ SubSeq(res_queue', 1, Len(res_queue)) = res_queue
    /\ LET e == res_queue'[Len(res_queue')]
       IN /\ e.idx = job[u].idx /\ e.job = u /\ Has(e, "output")
          /\ job[u].cmd = "f" => e.res = "val"
          /\ job[u].cmd = "g" =>
                /\ e.res = None
                /\ e.output = <<JobHeader(job[u].idx), FaultLine>>
C14_OneEntryPerWorker ==
    /\ [][\A u \in Workers : proc'[u].step # proc[u].step => Pushes(u)]_vars
    /\ [][\A u \in Workers :
            (proc[u].st = "alive" /\ proc'[u].st # "alive") => proc[u].step = 1]_vars
    /\ [][(Len(res_queue') > Len(res_queue) /\ Has(res_queue'[Len(res_queue')], "output"))
            => \E u \in Workers : Pushes(u)]_vars

\* a worker whose callable raised has terminated, its entry is on the channel
C14_FaultedWorkerPushed ==
    \E u \in Workers :
        /\ job[u].cmd = "g" /\ proc[u].st = "exited"
        /\ \E k \in DOMAIN res_queue : res_queue[k].job = u /\ res_queue[k].res = None

\* C15: in a poll pass of wait() every job of the running set has its
\* liveness checked: a job comes to lie before the position of the loop over
\* the running set only by the step that checks it (so a job that has
\* terminated when the pass starts is met by the pass and removed).
C15_EveryJobPolled ==
    [][(w.in_wait /\ w'.in_wait) =>
        \A k \in DOMAIN ps' :
            k < w'.i =>
                \/ \E j \in DOMAIN ps : j < w.i /\ ps[j] = ps'[k]
                \/ w.i \in DOMAIN ps /\ ps[w.i] = ps'[k]]_vars

\* C16: when wait() takes an entry with captured output from the results
\* channel, the lookup of the job succeeds and the output is attached to the
\* job that produced the entry (the job of that index and that batch), and
\* the output of no other job changes.
C16_OutputToItsJob ==
    [][(w.in_wait /\ res_queue # <<>> /\ res_queue' = Tail(res_queue)
            /\ Has(Head(res_queue), "output")) =>
        /\ ~(result'.st = "raised" /\ result'.exc = "KeyError")
        /\ job'[Head(res_queue).job].output = Head(res_queue).output
        /\ \A u \in DOMAIN job \ {Head(res_queue).job} :
              job'[u].output = job[u].output]_vars

\* C17: when wait() returns the results channel is empty.
C17_ChannelDrained == WaitReturned => res_queue = <<>>

\* C18: an external-command job leaves the running set only after the
\* speed-up signal has been set and its watcher has terminated, and its
\* captured output then holds every line the process wrote, in the order
\* written.
C18_OutputComplete ==
    [][\A u \in Range(ps) \ Range(ps') :
        ~IsCallable(job[u].cmd) =>
            /\ Has(job[u], "speed_up")
            /\ proc[u].watcher = "done" /\ proc[u].pipe = <<>>
            /\ job'[u].output = CmdLines(job[u].cmd)]_vars

\* C19: while an external-command job is running, its captured output is
\* changed only by its own watcher, which appends the line it has read: no
\* other step appends to the list or puts another list in its place.
C19_SingleWriter ==
    [][\A u \in Range(ps) :
        (~IsCallable(job[u].cmd)
            /\ (job'[u].output # job[u].output \/ job'[u].aliased # job[u].aliased)) =>
                /\ proc[u].pipe # <<>> /\ proc'[u].pipe = Tail(proc[u].pipe)
                /\ job'[u].output = Append(job[u].output, Head(proc[u].pipe))
                /\ job'[u].aliased]_vars

\* C20: when a call wait(pool_size=k) ends, by returning or by a fault that
\* leaves it, pool_size is what it was before the call.
C20_PoolSizeRestored ==
    [][(w.in_wait /\ ~w'.in_wait /\ w.arg # <<>>) => pool_size' = w.old_size]_vars

\* C21: for every total >= 0 and pool_size >= 1, idss(total) yields a finite
\* sequence of non-empty ranges, consecutive and increasing, that together
\* are 0, 1, ..., total-1; the empty sequence for total = 0.
C21_IdssPartition ==
    result.op = "idss" =>
        /\ result.st = "returned"
        /\ LET r == result.value
           IN /\ \A k \in DOMAIN r : r[k][1] < r[k][2]
              /\ \A k \in DOMAIN r : r[k][1] = (IF k = 1 THEN 0 ELSE r[k - 1][2])
              /\ IF result.total = 0 THEN r = <<>>
                 ELSE r # <<>> /\ r[Len(r)][2] = result.total

\* C22: a pool made without an explicit pool_size has pool_size >= 1, on
\* every machine with at least one CPU.
C22_DefaultAtLeastOne == result.op = "init" => pool_size >= 1

====
